---- MODULE Spec2Model ----
(***************************************************************************)
(* A model of cfgio's ConfigBuilder::build (src/src/lib.rs).               *)
(*                                                                         *)
(* Strings are sequences of one-character strings, so that prefix tests,   *)
(* lower-casing, separator replacement, path joining and integer parsing   *)
(* are computed rather than assumed.  The process environment, the working *)
(* directory and the file system are the ambient state build reads.        *)
(***************************************************************************)
EXTENDS Integers, Sequences, FiniteSets, TLC

VARIABLES
    builder,    \* the ConfigBuilder: five Option<String> fields
    environ,    \* the process environment table: name -> value | Unset | NotUnicode
    cwd,        \* the working directory (a path), or CwdError when it cannot be read
    fs,         \* what the file loader finds at a path: absent, malformed or a tree
    pc,         \* position of the running build call ("idle" when none runs)
    call,       \* the locals of the running build call
    last,       \* the record of the most recent finished build call, or NoCall
    prev        \* the finished call before it, same type, nothing changed in between

vars == <<builder, environ, cwd, fs, pc, call, last, prev>>

\* Tokens that are no string: a real string holds one-character elements only.
None == <<"None">>
Unset == <<"Unset">>
NotUnicode == <<"NotUnicode">>
CwdError == <<"CwdError">>

-----------------------------------------------------------------------------
(* Bounds of the model. *)

\* how many environment variables may be set at the same time
MaxVars == 2
\* how many builder fields may be set explicitly
MaxSetters == 1
\* how many times another thread may change the environment during one call
MaxMutations == 1

-----------------------------------------------------------------------------
(* String literals, as character sequences. *)

S_APP_ENV == <<"A","P","P","_","E","N","V">>
S_config == <<"c","o","n","f","i","g">>
S_APP == <<"A","P","P">>
S_us == <<"_">>
S_us2 == <<"_","_">>
S_local == <<"l","o","c","a","l">>
S_production == <<"p","r","o","d","u","c","t","i","o","n">>
S_Production == <<"P","r","o","d","u","c","t","i","o","n">>
S_staging == <<"s","t","a","g","i","n","g">>
S_empty == <<>>
S_MODE == <<"M","O","D","E">>
S_app == <<"a","p","p">>
S_APP_BAR__BAZ == <<"A","P","P","_","B","A","R","_","_","B","A","Z">>
S_APP_BAR == <<"A","P","P","_","B","A","R">>
S_app_bar__baz == <<"a","p","p","_","b","a","r","_","_","b","a","z">>
S_OTHER == <<"O","T","H","E","R">>
S_bar == <<"b","a","r">>
S_baz == <<"b","a","z">>
S_qux == <<"q","u","x">>
S_777 == <<"7","7","7">>
S_778 == <<"7","7","8">>
S_abc == <<"a","b","c">>
S_1 == <<"1">>
S_2 == <<"2">>
S_5 == <<"5">>
S_w == <<"/","w">>
S_etc == <<"/","e","t","c">>
S_dotdot == <<".",".">>

-----------------------------------------------------------------------------
(* String functions of the standard library that build relies on. *)

Upper == <<"A","B","C","D","E","F","G","H","I","J","K","L","M",
           "N","O","P","Q","R","S","T","U","V","W","X","Y","Z">>
Lower == <<"a","b","c","d","e","f","g","h","i","j","k","l","m",
           "n","o","p","q","r","s","t","u","v","w","x","y","z">>

\* char::to_lowercase on the ASCII letters
LowerChar(c) ==
    IF \E i \in 1..Len(Upper) : Upper[i] = c
    THEN Lower[CHOOSE i \in 1..Len(Upper) : Upper[i] = c]
    ELSE c

\* str::to_lowercase
ToLowercase(s) == [i \in 1..Len(s) |-> LowerChar(s[i])]

\* str::starts_with
StartsWith(s, p) == Len(p) <= Len(s) /\ SubSeq(s, 1, Len(p)) = p

\* s[n..]
DropFirst(s, n) == SubSeq(s, n + 1, Len(s))

\* str::replace(from, to): leftmost, non-overlapping occurrences
RECURSIVE Replace(_, _, _)
Replace(s, from, to) ==
    IF s = <<>> THEN <<>>
    ELSE IF from # <<>> /\ StartsWith(s, from)
         THEN to \o Replace(DropFirst(s, Len(from)), from, to)
         ELSE <<Head(s)>> \o Replace(Tail(s), from, to)

\* str::split(c): the pieces between the occurrences of the character c
RECURSIVE SplitChar(_, _)
SplitChar(s, c) ==
    IF \A i \in 1..Len(s) : s[i] # c THEN <<s>>
    ELSE LET i == CHOOSE k \in 1..Len(s) : s[k] = c /\ \A j \in 1..(k - 1) : s[j] # c
         IN <<SubSeq(s, 1, i - 1)>> \o SplitChar(DropFirst(s, i), c)

Digits == <<"0","1","2","3","4","5","6","7","8","9">>
IsDigit(c) == \E i \in 1..10 : Digits[i] = c
DigitValue(c) == (CHOOSE i \in 1..10 : Digits[i] = c) - 1

\* str::parse::<i64>() on an unsigned decimal numeral: [ok, value]
RECURSIVE DecimalValue(_)
DecimalValue(s) ==
    IF s = <<>> THEN 0
    ELSE 10 * DecimalValue(SubSeq(s, 1, Len(s) - 1)) + DigitValue(s[Len(s)])
ParseInt(s) ==
    IF s # <<>> /\ \A i \in 1..Len(s) : IsDigit(s[i])
    THEN [ok |-> TRUE, value |-> DecimalValue(s)]
    ELSE [ok |-> FALSE, value |-> 0]

-----------------------------------------------------------------------------
(* Config and the private finalizer ConfigBuilder::prepare (derive_builder). *)

\* #[builder(default = ...)] of each field of Config
DefaultConfig ==
    [environment_variable_name |-> S_APP_ENV,
     config_directory |-> S_config,
     environment_variables_source_prefix |-> S_APP,
     environment_variables_source_prefix_separator |-> S_us,
     environment_variables_source_separator |-> S_us2]

Fields == DOMAIN DefaultConfig

\* ConfigBuilder::default(): every field None
DefaultBuilder == [f \in Fields |-> None]

\* prepare(): a set field is cloned, an unset field takes its default; since
\* every field has a default, no UninitializedField error can arise
Prepare(b) ==
    [ok |-> TRUE,
     config |-> [f \in Fields |-> IF b[f] = None THEN DefaultConfig[f] ELSE b[f]]]

-----------------------------------------------------------------------------
(* Environment: strum EnumString / Display with serialize_all = "snake_case". *)

Environments == {"Local", "Production"}

\* #[default]
EnvironmentDefault == "Local"

\* Display
EnvironmentToString(e) == IF e = "Local" THEN S_local ELSE S_production

\* a parser that ignores letter case (what FromStr would be with
\* ascii_case_insensitive)
EnvironmentFromStrIgnoreCase(s) ==
    IF \E e \in Environments : EnvironmentToString(e) = ToLowercase(s)
    THEN [ok |-> TRUE,
          value |-> CHOOSE e \in Environments : EnvironmentToString(e) = ToLowercase(s)]
    ELSE [ok |-> FALSE, value |-> "None"]

\* FromStr: an exact, case-sensitive match of a variant's snake_case name
EnvironmentFromStr(s) ==
    IF \E e \in Environments : EnvironmentToString(e) = s
    THEN [ok |-> TRUE, value |-> CHOOSE e \in Environments : EnvironmentToString(e) = s]
    ELSE [ok |-> FALSE, value |-> "None"]

\* std::env::var: Err(NotPresent) for an unset variable (or a name that cannot
\* name one), Err(NotUnicode) for a value that is not valid Unicode
EnvVar(table, name) ==
    IF name = <<>> \/ (\E i \in 1..Len(name) : name[i] = "=")
       \/ name \notin DOMAIN table
    THEN [ok |-> FALSE, value |-> Unset]
    ELSE IF table[name] \in {Unset, NotUnicode}
         THEN [ok |-> FALSE, value |-> table[name]]
         ELSE [ok |-> TRUE, value |-> table[name]]

\* lines 51-57: Ok(env) => env.parse() or EnvironmentVariableParsing(env);
\* Err(_) => Environment::default()
ResolveEnvironment(config, table) ==
    LET v == EnvVar(table, config.environment_variable_name)
    IN IF v.ok
       THEN LET p == EnvironmentFromStr(v.value)
            IN IF p.ok THEN [ok |-> TRUE, environment |-> p.value, payload |-> None]
               ELSE [ok |-> FALSE, environment |-> "None", payload |-> v.value]
       ELSE [ok |-> TRUE, environment |-> EnvironmentDefault, payload |-> None]

-----------------------------------------------------------------------------
(* Paths: Path::join, and the file-source path of lines 59-65. *)

IsAbsolute(s) == s # <<>> /\ s[1] = "/"

\* a join that always appends
JoinPush(p, s) ==
    IF p # <<>> /\ p[Len(p)] = "/" THEN p \o s ELSE p \o <<"/">> \o s

\* PathBuf::join: an absolute argument replaces the path; otherwise it is
\* pushed after a separator (none is added after a trailing one)
Join(p, s) ==
    IF IsAbsolute(s) THEN s
    ELSE IF p # <<>> /\ p[Len(p)] = "/" THEN p \o s ELSE p \o <<"/">> \o s

\* current_dir()?.join(config_directory).join(environment.to_string())
SourcePath(dir, config, environment) ==
    Join(Join(dir, config.config_directory), EnvironmentToString(environment))

-----------------------------------------------------------------------------
(* The schema: a tree of string keys with scalar leaves, kept as the map    *)
(* from each leaf's key path to its scalar.  No leaf's path is a prefix of  *)
(* another's.                                                               *)

EmptyTree == [p \in {} |-> <<>>]

IsPrefix(p, q) == Len(p) <= Len(q) /\ SubSeq(q, 1, Len(p)) = p

\* a shallow overwrite: the whole top-level entry of the path is replaced
SetValueShallow(tree, path, value) ==
    LET keep == {q \in DOMAIN tree : q[1] # path[1]}
    IN [q \in keep \cup {path} |-> IF q = path THEN value ELSE tree[q]]

\* path::Expression::set of a scalar: intermediate non-tables are replaced by
\* tables (get_mut_forcibly), the entry itself is replaced whatever it held,
\* and everything else in the tree is kept
SetValue(tree, path, value) ==
    LET keep == {q \in DOMAIN tree : ~IsPrefix(path, q) /\ ~IsPrefix(q, path)}
    IN [q \in keep \cup {path} |-> IF q = path THEN value ELSE tree[q]]

IsIdentChar(c) ==
    \/ IsDigit(c) \/ c = "_" \/ c = "-"
    \/ \E i \in 1..Len(Upper) : Upper[i] = c \/ Lower[i] = c

IsIdent(s) == s # <<>> /\ \A i \in 1..Len(s) : IsIdentChar(s[i])

\* path::Expression::from_str on a key: identifiers separated by "."; a key
\* that does not parse is used whole, as one identifier (source::set_value)
KeyPath(key) ==
    LET parts == SplitChar(key, ".")
    IN IF \A i \in 1..Len(parts) : IsIdent(parts[i]) THEN parts ELSE <<key>>

-----------------------------------------------------------------------------
(* The two sources of lines 65-69. *)

\* config::File::from(path).required(false): a file that is not found adds
\* nothing; one that is found but cannot be parsed is an error
FileAbsent == [state |-> "Absent", tree |-> EmptyTree]
FileMalformed == [state |-> "Malformed", tree |-> EmptyTree]
FileOf(t) == [state |-> "Parsed", tree |-> t]

FileCollect(files, path) ==
    LET f == IF path \in DOMAIN files THEN files[path] ELSE FileAbsent
    IN IF f.state = "Malformed" THEN [ok |-> FALSE, tree |-> EmptyTree]
       ELSE [ok |-> TRUE, tree |-> f.tree]

\* the order in which env::vars() yields the variables of a table
EnvOrder ==
    <<S_APP_ENV, S_MODE, S_APP_BAR__BAZ, S_APP_BAR, S_app_bar__baz, S_OTHER>>

EnvNames == {EnvOrder[i] : i \in 1..Len(EnvOrder)}

\* format!("{}{}", prefix, prefix_separator).to_lowercase()
PrefixPattern(config) ==
    ToLowercase(config.environment_variables_source_prefix
                \o config.environment_variables_source_prefix_separator)

\* a prefix test on the name as written
MatchesExact(config, name) ==
    StartsWith(name, config.environment_variables_source_prefix
                     \o config.environment_variables_source_prefix_separator)

\* a prefix test that leaves the selector variable out
MatchesNotSelector(config, name) ==
    /\ StartsWith(ToLowercase(name), PrefixPattern(config))
    /\ name # config.environment_variable_name

\* the collector's prefix test, on the lower-cased name
Matches(config, name) == StartsWith(ToLowercase(name), PrefixPattern(config))

\* the collector's key: the lower-cased name without the prefix pattern, each
\* separator replaced by "."
EnvKey(config, name) ==
    LET rest == DropFirst(ToLowercase(name), Len(PrefixPattern(config)))
    IN IF config.environment_variables_source_separator # <<>>
       THEN Replace(rest, config.environment_variables_source_separator, <<".">>)
       ELSE rest

\* config::Environment::collect: env::vars() panics on a variable that is not
\* valid Unicode; otherwise every matching variable is inserted under its
\* key, a later variable replacing an earlier one with the same key
EnvCollect(config, table) ==
    LET set == {i \in 1..Len(EnvOrder) :
                   EnvOrder[i] \in DOMAIN table /\ table[EnvOrder[i]] # Unset}
        hit == {i \in set : Matches(config, EnvOrder[i])}
        keys == {EnvKey(config, EnvOrder[i]) : i \in hit}
        winner(k) == CHOOSE i \in hit :
                        /\ EnvKey(config, EnvOrder[i]) = k
                        /\ \A j \in hit : EnvKey(config, EnvOrder[j]) = k => j <= i
    IN IF \E i \in set : table[EnvOrder[i]] = NotUnicode
       THEN [panic |-> TRUE, map |-> EmptyTree]
       ELSE [panic |-> FALSE, map |-> [k \in keys |-> table[EnvOrder[winner(k)]]]]

-----------------------------------------------------------------------------
(* Lines 71-76: config::Config::builder().add_source(file_source)           *)
(* .add_source(env_vars_source).build()                                     *)

\* a source whose entries cannot clash (the parsed file): all are set
RECURSIVE ApplyTree(_, _)
ApplyTree(cache, tree) ==
    IF DOMAIN tree = {} THEN cache
    ELSE LET p == CHOOSE q \in DOMAIN tree : TRUE
         IN ApplyTree(SetValue(cache, p, tree[p]),
                      [q \in DOMAIN tree \ {p} |-> tree[q]])

\* the environment source's map is a hash map: its entries are set in an
\* unspecified order, so every order is a possible outcome
RECURSIVE ApplyMap(_, _, _)
ApplyMap(cache, map, keys) ==
    IF keys = {} THEN {cache}
    ELSE UNION {ApplyMap(SetValue(cache, KeyPath(k), map[k]), map, keys \ {k}) :
                   k \in keys}

\* the two sources collected in the opposite order
EnvThenFile(fileTree, envMap) ==
    {ApplyTree(c, fileTree) : c \in ApplyMap(EmptyTree, envMap, DOMAIN envMap)}

\* sources are collected into the cache in the order they were added
BuildSchema(fileTree, envMap) ==
    ApplyMap(ApplyTree(EmptyTree, fileTree), envMap, DOMAIN envMap)

-----------------------------------------------------------------------------
(* Lines 77-79: try_deserialize into the caller's type Cfg. *)

\* the types a caller asks for: FooConfig of the test (lines 98-106) and a
\* dynamic map of the whole schema
Targets == {"FooConfig", "Map"}

U16Modulus == 65536

\* the u16 leaves a struct target requires
Required(target) ==
    IF target = "FooConfig" THEN {<<S_bar, S_baz>>} ELSE {}

\* a struct needs each of its fields as a leaf that parses as an integer
\* (unknown keys are ignored); a dynamic map takes the schema as it is
Deserialize(tree, target) ==
    IF target = "Map" THEN [ok |-> TRUE, value |-> tree]
    ELSE IF \A p \in Required(target) : p \in DOMAIN tree /\ ParseInt(tree[p]).ok
         THEN [ok |-> TRUE,
               value |-> [p \in Required(target) |->
                             ParseInt(tree[p]).value % U16Modulus]]
         ELSE [ok |-> FALSE, value |-> EmptyTree]

-----------------------------------------------------------------------------
(* ConfigBuilder::build, lines 39-80. *)

Stages ==
    <<"Preparation", "EnvironmentVariableParsing", "WorkingDirectoryAccess",
      "ComposeSchema", "Deserialization">>

Ok(v) == [kind |-> "Ok", reason |-> "None", payload |-> None, value |-> v]
Err(reason, payload) ==
    [kind |-> "Err", reason |-> reason, payload |-> payload, value |-> EmptyTree]
Panic == [kind |-> "Panic", reason |-> "None", payload |-> None, value |-> EmptyTree]

NoCall == [target |-> "None"]

\* the record of a finished call: what it returned and what it went through
Finished(target, n, outcome, environment, path, layer, merged) ==
    [target |-> target, stages |-> SubSeq(Stages, 1, n), outcome |-> outcome,
     environment |-> environment, path |-> path, layer |-> layer,
     merged |-> merged, seen |-> {}]

\* lines 59-79, given the resolved environment: the calls that can result
\* when the working directory is dir, the files are files and the
\* environment table is table when the sources are collected
BuildFrom(config, environment, table, dir, files, target) ==
    IF dir = CwdError
    THEN {Finished(target, 3, Err("WorkingDirectoryAccess", None),
                   environment, None, EmptyTree, EmptyTree)}
    ELSE LET path == SourcePath(dir, config, environment)
             file == FileCollect(files, path)
             env == EnvCollect(config, table)
         IN IF ~file.ok
            THEN {Finished(target, 4, Err("ComposeSchema", None),
                           environment, path, EmptyTree, EmptyTree)}
            ELSE IF env.panic
            THEN {Finished(target, 4, Panic, environment, path, EmptyTree, EmptyTree)}
            ELSE {LET d == Deserialize(merged, target)
                  IN Finished(target, 5,
                              IF d.ok THEN Ok(d.value) ELSE Err("Deserialization", None),
                              environment, path, env.map, merged) :
                     merged \in BuildSchema(file.tree, env.map)}

\* lines 40-57: prepare, then resolve the environment; an error of either
\* ends the call
BuildEarly(b, table, target) ==
    LET prep == Prepare(b)
        sel == ResolveEnvironment(prep.config, table)
    IN IF ~prep.ok
       THEN [done |-> TRUE,
             finished |-> Finished(target, 1, Err("Preparation", None),
                                   "None", None, EmptyTree, EmptyTree)]
       ELSE IF ~sel.ok
       THEN [done |-> TRUE,
             finished |-> Finished(target, 2,
                                   Err("EnvironmentVariableParsing", sel.payload),
                                   "None", None, EmptyTree, EmptyTree)]
       ELSE [done |-> FALSE, finished |-> NoCall]

\* the whole call when nothing changes while it runs
BuildCalls(b, table, dir, files, target) ==
    LET early == BuildEarly(b, table, target)
        config == Prepare(b).config
    IN IF early.done THEN {early.finished}
       ELSE BuildFrom(config, ResolveEnvironment(config, table).environment,
                      table, dir, files, target)

-----------------------------------------------------------------------------
(* The ambient state the model ranges over. *)

P_config_local == S_w \o <<"/">> \o S_config \o <<"/">> \o S_local
P_config_production == S_w \o <<"/">> \o S_config \o <<"/">> \o S_production
P_etc_local == S_etc \o <<"/">> \o S_local
P_etc_production == S_etc \o <<"/">> \o S_production
P_up_production == S_w \o <<"/">> \o S_dotdot \o <<"/">> \o S_production

\* bar.baz = 1, bar.qux = 2
FileA == FileOf((<<S_bar, S_baz>> :> S_1) @@ (<<S_bar, S_qux>> :> S_2))
\* bar.baz = 2
FileB == FileOf(<<S_bar, S_baz>> :> S_2)
\* bar = 5 (a scalar where the test's type has a table)
FileC == FileOf(<<S_bar>> :> S_5)

NoFiles == [p \in {} |-> FileAbsent]
SomeFiles ==
    (P_config_production :> FileA) @@ (P_config_local :> FileC)
    @@ (P_etc_production :> FileB) @@ (P_up_production :> FileC)
BadFiles ==
    (P_config_local :> FileMalformed) @@ (P_config_production :> FileA)
    @@ (P_etc_local :> FileB) @@ (P_etc_production :> FileMalformed)

Ambients ==
    {[cwd |-> S_w, fs |-> NoFiles], [cwd |-> S_w, fs |-> SomeFiles],
     [cwd |-> S_w, fs |-> BadFiles], [cwd |-> CwdError, fs |-> BadFiles]}

\* the values a variable is given
ValuesOf(name) ==
    IF name = S_APP_ENV
    THEN {S_local, S_production, S_staging, S_empty, S_Production, NotUnicode}
    ELSE IF name = S_MODE THEN {S_production}
    ELSE IF name = S_APP_BAR__BAZ THEN {S_777, S_abc}
    ELSE IF name = S_app_bar__baz THEN {S_778}
    ELSE IF name = S_OTHER THEN {S_777, NotUnicode}
    ELSE {S_777}

\* the values a setter is called with
SetterValues(f) ==
    IF f = "environment_variable_name" THEN {S_MODE}
    ELSE IF f = "config_directory" THEN {S_etc, S_dotdot}
    ELSE IF f = "environment_variables_source_prefix" THEN {S_app}
    ELSE IF f = "environment_variables_source_prefix_separator" THEN {S_empty}
    ELSE {S_us}

AllUnset == [n \in EnvNames |-> Unset]

NumSet(table) == Cardinality({n \in DOMAIN table : table[n] # Unset})
NumFields(b) == Cardinality({f \in Fields : b[f] # None})

Init ==
    /\ builder = DefaultBuilder
    /\ environ = AllUnset
    /\ \E a \in Ambients : cwd = a.cwd /\ fs = a.fs
    /\ pc = "idle"
    /\ call = NoCall
    /\ last = NoCall
    /\ prev = NoCall

-----------------------------------------------------------------------------
(* Operations. *)

\* a generated setter (setter(into)) of ConfigBuilder; it needs &mut self,
\* so none runs while build borrows the builder
SetField ==
    /\ pc = "idle"
    /\ \E f \in Fields : \E v \in SetterValues(f) :
          /\ builder[f] # v
          /\ NumFields([builder EXCEPT ![f] = v]) <= MaxSetters
          /\ builder' = [builder EXCEPT ![f] = v]
    /\ last' = NoCall
    /\ prev' = NoCall
    /\ UNCHANGED <<environ, cwd, fs, pc, call>>

\* std::env::set_var between calls of build
SetVar ==
    /\ pc = "idle"
    /\ \E n \in EnvNames : \E v \in ValuesOf(n) :
          /\ environ[n] # v
          /\ NumSet([environ EXCEPT ![n] = v]) <= MaxVars
          /\ environ' = [environ EXCEPT ![n] = v]
    /\ last' = NoCall
    /\ prev' = NoCall
    /\ UNCHANGED <<builder, cwd, fs, pc, call>>

\* what a finished call leaves behind; tables are the environment tables
\* that existed while it ran
Finish(c, tables) ==
    /\ last' = [c EXCEPT !.seen = tables]
    /\ prev' = IF last # NoCall /\ last.target = c.target THEN last ELSE NoCall

\* ConfigBuilder::build::<Cfg>() run to its end with nothing else running
Build ==
    /\ pc = "idle"
    /\ \E target \in Targets :
          \E c \in BuildCalls(builder, environ, cwd, fs, target) :
             Finish(c, {environ})
    /\ UNCHANGED <<builder, environ, cwd, fs, pc, call>>

Next == SetField \/ SetVar \/ Build

Spec == Init /\ [][Next]_vars

-----------------------------------------------------------------------------
(* build while another thread changes the environment.  The call reads the  *)
(* environment twice: std::env::var at line 51 and env::vars() when the     *)
(* sources are collected at line 74.  Each read is atomic (the standard     *)
(* library locks the table); another thread may run between them.           *)

\* lines 40-57: the first read; an error ends the call here
BuildBegin ==
    /\ pc = "idle"
    /\ \E target \in Targets :
          LET early == BuildEarly(builder, environ, target)
              config == Prepare(builder).config
          IN IF early.done
             THEN /\ Finish(early.finished, {environ})
                  /\ UNCHANGED <<pc, call>>
             ELSE /\ pc' = "resolved"
                  /\ call' = [target |-> target, config |-> config,
                               environment |->
                                   ResolveEnvironment(config, environ).environment,
                               seen |-> {environ}]
                  /\ UNCHANGED <<last, prev>>
    /\ UNCHANGED <<builder, environ, cwd, fs>>

\* std::env::set_var on another thread, between the two reads
SetVarDuring ==
    /\ pc = "resolved"
    /\ Cardinality(call.seen) <= MaxMutations
    /\ \E n \in EnvNames : \E v \in ValuesOf(n) :
          /\ environ[n] # v
          /\ NumSet([environ EXCEPT ![n] = v]) <= MaxVars
          /\ environ' = [environ EXCEPT ![n] = v]
          /\ call' = [call EXCEPT !.seen = @ \cup {environ'}]
    /\ UNCHANGED <<builder, cwd, fs, pc, last, prev>>

\* lines 59-79: the second read, and the rest of the call
BuildEnd ==
    /\ pc = "resolved"
    /\ \E c \in BuildFrom(call.config, call.environment, environ, cwd, fs,
                          call.target) : Finish(c, call.seen)
    /\ pc' = "idle"
    /\ call' = NoCall
    /\ UNCHANGED <<builder, environ, cwd, fs>>

NextConc == SetVar \/ BuildBegin \/ SetVarDuring \/ BuildEnd

SpecConc == Init /\ [][NextConc]_vars

-----------------------------------------------------------------------------
(* Vocabulary of the properties.  A finished call is judged against the     *)
(* ambient state it ran in: any change of the builder or of the environment *)
(* clears last, so while last is a call the state is the one it read.       *)

Done == last # NoCall

\* the call went through source assembly and built the merged schema
Built == Done /\ Len(last.stages) = 5

Config == Prepare(builder).config

IsString(v) == v \notin {Unset, NotUnicode}

SelectorValue ==
    IF Config.environment_variable_name \in EnvNames
    THEN environ[Config.environment_variable_name] ELSE Unset

\* s split at each occurrence of sep, read from the left
RECURSIVE SplitOn(_, _, _)
SplitOn(s, sep, acc) ==
    IF s = <<>> THEN <<acc>>
    ELSE IF sep # <<>> /\ StartsWith(s, sep)
         THEN <<acc>> \o SplitOn(DropFirst(s, Len(sep)), sep, <<>>)
         ELSE SplitOn(Tail(s), sep, Append(acc, Head(s)))

RECURSIVE Dotted(_)
Dotted(parts) ==
    IF Len(parts) = 1 THEN parts[1]
    ELSE parts[1] \o <<".">> \o Dotted(Tail(parts))

FullPrefix ==
    Config.environment_variables_source_prefix
    \o Config.environment_variables_source_prefix_separator

\* the name is <prefix><prefix_separator><KEY>, letter for letter
NamedExactly(n) == StartsWith(n, FullPrefix)

\* the same, letter case ignored
NamedIgnoringCase(n) == StartsWith(ToLowercase(n), ToLowercase(FullPrefix))

\* KEY, lower-cased, split at the key separator
PathOf(n) ==
    SplitOn(ToLowercase(DropFirst(n, Len(FullPrefix))),
            Config.environment_variables_source_separator, <<>>)

\* where the variable's value lands in the schema: at its key path, or, when
\* a segment of the path is empty, at the top level under the whole key
LeafOf(n) ==
    IF \A i \in 1..Len(PathOf(n)) : PathOf(n)[i] # <<>>
    THEN PathOf(n) ELSE <<Dotted(PathOf(n))>>

IsSetVar(n) == environ[n] # Unset

\* the variables the override layer takes, by the amended rule
LayerVars == {n \in EnvNames : IsSetVar(n) /\ NamedIgnoringCase(n)}

Related(p, q) == IsPrefix(p, q) \/ IsPrefix(q, p)

\* no other variable of the layer lands on, above or below n's leaf
Unclobbered(n) ==
    \A m \in LayerVars \ {n} : ~Related(LeafOf(m), LeafOf(n))

\* the parsed file of the call (empty when there is none)
FileTree == FileCollect(fs, last.path).tree

FileDefines(p) == \E q \in DOMAIN FileTree : IsPrefix(p, q)

\* the returned value holds v at the key path p
Carries(p, v) ==
    /\ p \in DOMAIN last.outcome.value
    /\ IF last.target = "Map" THEN last.outcome.value[p] = v
       ELSE ParseInt(v).ok /\ last.outcome.value[p] = ParseInt(v).value

-----------------------------------------------------------------------------
(* C1: precedence of the environment over the file. *)

-----------------------------------------------------------------------------
(* C2: resolution of the environment from the selector variable. *)

\* C2: unset gives Local without an error, "local" gives Local, "production"
\* gives Production, and any other string fails the call with
\* EnvironmentVariableParsing carrying that string.
C2_Resolution ==
    Done =>
        /\ SelectorValue = Unset =>
              /\ last.outcome.reason # "EnvironmentVariableParsing"
              /\ last.environment = "Local"
        /\ SelectorValue = S_local =>
              /\ last.outcome.reason # "EnvironmentVariableParsing"
              /\ last.environment = "Local"
        /\ SelectorValue = S_production =>
              /\ last.outcome.reason # "EnvironmentVariableParsing"
              /\ last.environment = "Production"
        /\ (IsString(SelectorValue) /\ SelectorValue \notin {S_local, S_production}) =>
              /\ last.outcome = Err("EnvironmentVariableParsing", SelectorValue)
              /\ Len(last.stages) = 2

\* APP_ENV=Production (capitalised) is refused, and the error carries it
C2_Witness ==
    /\ Done
    /\ Config.environment_variable_name = S_APP_ENV
    /\ environ[S_APP_ENV] = S_Production
    /\ last.outcome = Err("EnvironmentVariableParsing", S_Production)

-----------------------------------------------------------------------------
(* C3: the stages fail fast, in order, and always by an Err value. *)

SelectorFails == IsString(SelectorValue) /\ SelectorValue \notin {S_local, S_production}
DirectoryFails == cwd = CwdError
FileFails == last.path \in DOMAIN fs /\ fs[last.path].state = "Malformed"

\* C3 as stated: the call ends as Ok or Err, never by a crash; the error is
\* that of the earliest failing stage and no later stage runs; Ok is returned
\* only after all five stages.
C3_Original ==
    Done =>
        /\ last.outcome.kind \in {"Ok", "Err"}
        /\ SelectorFails =>
              /\ last.outcome.reason = "EnvironmentVariableParsing"
              /\ Len(last.stages) = 2
        /\ (~SelectorFails /\ DirectoryFails) =>
              /\ last.outcome.reason = "WorkingDirectoryAccess"
              /\ Len(last.stages) = 3
        /\ (~SelectorFails /\ ~DirectoryFails /\ FileFails) =>
              /\ last.outcome.reason = "ComposeSchema"
              /\ Len(last.stages) = 4
        /\ last.outcome.kind = "Ok" =>
              /\ Len(last.stages) = 5
              /\ ~SelectorFails /\ ~DirectoryFails /\ ~FileFails
        /\ last.outcome.kind = "Err" =>
              last.outcome.reason = last.stages[Len(last.stages)]

-----------------------------------------------------------------------------
(* C4: a missing file is no failure. *)

\* n gives the field p a value of its type
Supplies(n, p) == LeafOf(n) = p /\ IsString(environ[n]) /\ ParseInt(environ[n]).ok

\* the override layer alone gives the target every field it requires
OverridesSupply(target) ==
    \A p \in Required(target) : \E n \in LayerVars : Supplies(n, p) /\ Unclobbered(n)

\* no variable of the layer gives some required field
OverridesLack(target) ==
    \E p \in Required(target) : \A n \in LayerVars : ~Supplies(n, p)

\* C4 as stated: whenever the file at the derived path does not exist, the
\* merged schema is the override layer alone, the call succeeds if the
\* overrides supply every required field, and otherwise fails with
\* Deserialization (never ComposeSchema).
C4_Original ==
    (Done /\ last.path # None /\ last.path \notin DOMAIN fs) =>
        /\ last.outcome.reason # "ComposeSchema"
        /\ last.merged \in ApplyMap(EmptyTree, last.layer, DOMAIN last.layer)
        /\ OverridesSupply(last.target) => last.outcome.kind = "Ok"
        /\ OverridesLack(last.target) => last.outcome = Err("Deserialization", None)

-----------------------------------------------------------------------------
(* C5: the merge is deep. *)

\* C5: a leaf of the file that no variable of the override layer lands on,
\* above or below keeps the file's value in the merged schema, also when a
\* sibling of it under the same parent is overridden; the overridden leaf
\* takes the variable's value.
C5_DeepMerge ==
    Built =>
        /\ \A q \in DOMAIN FileTree :
              (\A n \in LayerVars : ~Related(LeafOf(n), q)) =>
                  /\ q \in DOMAIN last.merged
                  /\ last.merged[q] = FileTree[q]
        /\ \A n \in LayerVars :
              (Unclobbered(n) /\ LeafOf(n) \in DOMAIN FileTree) =>
                  /\ LeafOf(n) \in DOMAIN last.merged
                  /\ last.merged[LeafOf(n)] = environ[n]

\* the file says bar.baz = 1 and bar.qux = 2, APP_BAR__BAZ=777 overrides baz
\* only: the merged schema has bar.baz = 777 and still bar.qux = 2
C5_Witness ==
    /\ Built
    /\ DOMAIN FileTree = {<<S_bar, S_baz>>, <<S_bar, S_qux>>}
    /\ environ[S_APP_BAR__BAZ] = S_777
    /\ <<S_bar, S_qux>> \in DOMAIN last.merged
    /\ last.merged[<<S_bar, S_qux>>] = S_2
    /\ last.merged[<<S_bar, S_baz>>] = S_777

-----------------------------------------------------------------------------
(* C6: which variables make the override layer. *)

\* the call's outcomes had the table been t
OutcomesWith(t) ==
    {c.outcome : c \in BuildCalls(builder, t, cwd, fs, last.target)}

\* the tables that differ from the present one in the variable n alone,
\* n's value being valid Unicode or n unset
Variants(n) ==
    {[environ EXCEPT ![n] = v] : v \in (ValuesOf(n) \cup {Unset}) \ {NotUnicode}}

-----------------------------------------------------------------------------
(* C7: two calls in the same state. *)

\* C7 as stated (its first half): two successive calls for the same type,
\* with nothing changed in between, return equal outcomes.
C7_Original == (Done /\ prev # NoCall) => prev.outcome = last.outcome

-----------------------------------------------------------------------------
(* C8: the path of the file source. *)

DirectoryOption == Config.config_directory

\* the components of a path
Components(p) == SelectSeq(SplitChar(p, "/"), LAMBDA c : c # <<>>)

\* p names a place below the directory d without leaving it
LiesUnder(p, d) ==
    /\ StartsWith(p, d \o <<"/">>)
    /\ \A i \in 1..Len(Components(p)) : Components(p)[i] # S_dotdot

\* C8 as stated: the path is the working directory, then the config
\* directory, then the environment's name, and lies under the working
\* directory.
C8_Original ==
    (Done /\ last.path # None) =>
        /\ last.path = cwd \o <<"/">> \o DirectoryOption \o <<"/">>
                       \o EnvironmentToString(last.environment)
        /\ LiesUnder(last.path, cwd)

\* C8 as amended: for a relative config directory the path is as stated, and
\* it lies under the working directory when the config directory has no ..
\* component; an absolute config directory replaces the working directory,
\* the path being the config directory followed by the environment's name.
C8_PathJoin ==
    (Done /\ last.path # None) =>
        /\ IsAbsolute(last.path)
        /\ Components(last.path) =
              (IF IsAbsolute(DirectoryOption) THEN <<>> ELSE Components(cwd))
              \o Components(DirectoryOption)
              \o <<EnvironmentToString(last.environment)>>
        /\ (/\ ~IsAbsolute(DirectoryOption)
            /\ \A i \in 1..Len(Components(DirectoryOption)) :
                  Components(DirectoryOption)[i] # S_dotdot)
           => LiesUnder(last.path, cwd)

\* config_directory("/etc") with APP_ENV=production reads /etc/production
C8_Witness ==
    /\ Done
    /\ builder.config_directory = S_etc
    /\ cwd = S_w
    /\ last.environment = "Production"
    /\ last.path = P_etc_production

-----------------------------------------------------------------------------
(* C10: the selector variable is an override too. *)

Selector == Config.environment_variable_name

-----------------------------------------------------------------------------
(* C9: the environment changes while the call runs. *)

\* the call's two reads agree with the table t
SnapshotOf(t) ==
    /\ ResolveEnvironment(Config, t).ok
    /\ ResolveEnvironment(Config, t).environment = last.environment
    /\ Built => (~EnvCollect(Config, t).panic /\ EnvCollect(Config, t).map = last.layer)

====
